---- MODULE Spec2Model ----
(***************************************************************************)
(* ScreenScribe: the capture session of the App component and the          *)
(* transcribeImage service call.                                           *)
(*                                                                         *)
(* Text is a sequence of tokens: a token is one character, or a run of     *)
(* non-blank characters taken as a whole ("No text found in the image.").  *)
(* The empty string is << >>.  A nullable value (cropArea, lastScreenshot, *)
(* selectionStartPoint) is Null == << >> or a non-empty tuple.             *)
(*                                                                         *)
(* Every handler runs to completion on the UI event loop; React commits    *)
(* the batched state updates and runs the effects before the next event,   *)
(* so an action is a handler followed by the commit (Commit).  The two     *)
(* awaits (getDisplayMedia, transcribeImage) split their handlers into a   *)
(* synchronous part and a continuation.                                    *)
(*                                                                         *)
(* The draft (editedTranscription) is read only while isEditing, by the    *)
(* draft textarea and by Save Changes, and the Edit button overwrites it   *)
(* as it sets the flag: the value an ended edit leaves behind is never     *)
(* read, and the model drops it (<< >>) where the flag is cleared.         *)
(* isCopied, handleCopy and handleDownload touch nothing modelled here.    *)
(***************************************************************************)
EXTENDS Integers, Sequences, FiniteSets, TLC

VARIABLES
    status,               \* useState<Status>
    transcription,        \* useState<string>: the accumulated transcript
    currentSnippet,       \* useState<string>
    lastScreenshot,       \* useState<string | null>: the data URL, as the region drawn
    error,                \* useState<string | null>
    isEditing,            \* useState<boolean>
    editedTranscription,  \* useState<string>: the draft, kept while isEditing
    cropArea,             \* useState<{x, y, width, height} | null>
    isSelecting,          \* useState(false)
    selectionStartPoint,  \* useRef<{x, y} | null>
    streamRef,            \* useRef<MediaStream | null>: TRUE when it holds a stream
    leakedStreams,        \* live streams streamRef no longer points to
    acquiring,            \* getDisplayMedia calls awaiting their result
    onendedEnv,           \* <<transcription, lastScreenshot>> closed over by onended
    videoSrc,             \* video.srcObject of the mounted <video> (handlers bound with it)
    videoReady,           \* video.readyState >= 2
    inFlight,             \* transcribeImage calls awaiting, issued by the current session
    staleInFlight,        \* transcribeImage calls awaiting, issued by a session since ended
    lastOp                \* the event handled last: its name, and what it delivered

vars == <<status, transcription, currentSnippet, lastScreenshot, error, isEditing,
          editedTranscription, cropArea, isSelecting, selectionStartPoint, streamRef,
          leakedStreams, acquiring, onendedEnv, videoSrc, videoReady, inFlight,
          staleInFlight, lastOp>>

----------------------------------------------------------------------------
(* Bounds of the model *)

\* transcribeImage calls awaiting at once
MaxInFlight == 2
\* streams acquired or being acquired at once
MaxStreams == 1
\* tokens of the accumulated transcript
MaxLen == 4

----------------------------------------------------------------------------
(* types.ts *)

Idle == "idle"
Capturing == "capturing"
Streaming == "streaming"
Transcribing == "transcribing"
Reviewing == "reviewing"
Success == "success"
Error == "error"

Status == {Idle, Capturing, Streaming, Transcribing, Reviewing, Success, Error}

Null == << >>
ErrNone == "null"

ErrCapture == "Failed to start screen capture. Please check permissions and try again."
ErrPlay == "Could not play the screen share stream."
ErrVideo == "There was an error with the video stream."
ErrNotReady == "Video stream is not ready."
ErrNoArea == "Please select an area on the preview to capture."
ErrTranscribe == "Transcription failed. Please try another snapshot."
ErrContext == "Could not get canvas context to take a snapshot."

\* const isSessionActive = [Streaming, Transcribing, Reviewing].includes(status)
isSessionActive(s) == s \in {Streaming, Transcribing, Reviewing}

----------------------------------------------------------------------------
(* Inputs *)

SP == " "
NL == "\n"
Blank == {SP, NL}

A == <<"A">>
B == <<"B">>

\* response.text of the service: absent, empty, blank only, with content
ServiceTexts == {<< >>, <<SP>>, <<"A">>, <<SP, "B", NL>>}
AllResponses ==
    {[ok |-> FALSE, hasText |-> FALSE, text |-> << >>],
     [ok |-> TRUE, hasText |-> FALSE, text |-> << >>]}
    \cup {[ok |-> TRUE, hasText |-> TRUE, text |-> t] : t \in ServiceTexts}

\* the responses a session meets
Responses ==
    {r \in AllResponses : ~r.ok \/ (r.hasText /\ r.text # << >>)}

\* what the user types into the review textarea and into the draft textarea
SnippetEdits == {<< >>}
DraftEdits == {<<"C">>}

\* pointer positions relative to the preview container
Points == {<<10, 10>>, <<110, 90>>}

\* videoWidth, clientWidth, videoHeight, clientHeight
VideoDims == {<<1280, 640, 720, 360>>}

\* err.name of a rejected getDisplayMedia
AcquireErrors == {"NotAllowedError", "AbortError", "NotFoundError"}

----------------------------------------------------------------------------
(* geminiService: transcribeImage *)

Placeholder == <<"No text found in the image.">>

RECURSIVE TrimStart(_)
TrimStart(t) == IF t # << >> /\ Head(t) \in Blank THEN TrimStart(Tail(t)) ELSE t

RECURSIVE TrimEnd(_)
TrimEnd(t) ==
    IF t # << >> /\ t[Len(t)] \in Blank THEN TrimEnd(SubSeq(t, 1, Len(t) - 1)) ELSE t

\* String.prototype.trim
Trim(t) == TrimEnd(TrimStart(t))

\* the value the promise settles with: resolved with a text, or rejected
transcribeImage(response) ==
    IF ~response.ok
    THEN [threw |-> TRUE, value |-> << >>]
    ELSE IF ~response.hasText \/ response.text = << >>
         THEN [threw |-> FALSE, value |-> Placeholder]
         ELSE [threw |-> FALSE, value |-> Trim(response.text)]

----------------------------------------------------------------------------
(* Numbers of the region extraction: exact quotients n/d as reduced pairs *)

RECURSIVE Gcd(_, _)
Gcd(a, b) == IF b = 0 THEN a ELSE Gcd(b, a % b)

Quot(n, d) == LET g == Gcd(n, d) IN <<n \div g, d \div g>>

Min(a, b) == IF a < b THEN a ELSE b
Abs(a) == IF a < 0 THEN -a ELSE a

----------------------------------------------------------------------------
(* The state after construction *)

\* an event that delivers nothing (a transcription delivers its text, a failed
\* acquisition its err.name, a snapshot the dimensions of the video)
Op(name) == [op |-> name, arg |-> << >>]

Init ==
    /\ status = Idle
    /\ transcription = << >>
    /\ currentSnippet = << >>
    /\ lastScreenshot = Null
    /\ error = ErrNone
    /\ isEditing = FALSE
    /\ editedTranscription = << >>
    /\ cropArea = Null
    /\ isSelecting = FALSE
    /\ selectionStartPoint = Null
    /\ streamRef = FALSE
    /\ leakedStreams = 0
    /\ acquiring = 0
    /\ onendedEnv = <<<< >>, Null>>
    /\ videoSrc = "none"
    /\ videoReady = FALSE
    /\ inFlight = 0
    /\ staleInFlight = 0
    /\ lastOp = Op("init")

----------------------------------------------------------------------------
(* React's commit after a handler, and the effect that binds the stream *)

\* The <video> is rendered while isSessionActive && status !== Success; an
\* element kept across the commit keeps src/ready (the values the handler left),
\* a newly mounted one has no source.  The effect (deps [status]) runs when
\* status changed, and binds when the new status st is Streaming, streamRef
\* holds a stream (held) and the video is not already bound to it.
Commit(st, held, src, ready) ==
    LET kept == isSessionActive(status) /\ isSessionActive(st)
        s0 == IF kept THEN src ELSE "none"
        r0 == IF kept THEN ready ELSE FALSE
        bind == st # status /\ st = Streaming /\ held /\ s0 # "current"
    IN  /\ videoSrc' = IF ~isSessionActive(st) THEN "none"
                       ELSE IF bind THEN "current" ELSE s0
        /\ videoReady' = IF ~isSessionActive(st) THEN FALSE
                         ELSE IF bind THEN FALSE ELSE r0

\* the requests of the session that ends are awaited by no session any more
RetireRequests ==
    /\ staleInFlight' = staleInFlight + inFlight
    /\ inFlight' = 0

----------------------------------------------------------------------------
(* Handlers *)

\* stopStream: stops the tracks of streamRef and clears it; the mounted video's
\* srcObject and listeners are cleared with it, which its callers hand to
\* Commit as the source "none"
stopStream ==
    streamRef' = FALSE

\* handleStartNewSession without setError(null)
handleStartNewSessionKeepsError ==
    /\ stopStream
    /\ lastScreenshot' = Null
    /\ transcription' = << >>
    /\ currentSnippet' = << >>
    /\ status' = Idle
    /\ cropArea' = Null
    /\ isSelecting' = FALSE
    /\ isEditing' = FALSE
    /\ Commit(Idle, FALSE, "none", FALSE)
    /\ RetireRequests
    /\ editedTranscription' = << >>
    /\ UNCHANGED <<error, selectionStartPoint>>

\* handleStartNewSession without setCropArea(null)
handleStartNewSessionKeepsCrop ==
    /\ stopStream
    /\ lastScreenshot' = Null
    /\ transcription' = << >>
    /\ currentSnippet' = << >>
    /\ status' = Idle
    /\ error' = ErrNone
    /\ isSelecting' = FALSE
    /\ isEditing' = FALSE
    /\ Commit(Idle, FALSE, "none", FALSE)
    /\ RetireRequests
    /\ editedTranscription' = << >>
    /\ UNCHANGED <<cropArea, selectionStartPoint>>

handleStartNewSession ==
    /\ stopStream
    /\ lastScreenshot' = Null
    /\ transcription' = << >>
    /\ currentSnippet' = << >>
    /\ status' = Idle
    /\ error' = ErrNone
    /\ cropArea' = Null
    /\ isSelecting' = FALSE
    /\ isEditing' = FALSE
    /\ Commit(Idle, FALSE, "none", FALSE)
    /\ RetireRequests
    /\ editedTranscription' = << >>
    /\ UNCHANGED selectionStartPoint

\* handleEndSession without the branch for a session that captured nothing
handleEndSessionAlwaysSuccess(tr, shot) ==
    /\ stopStream
    /\ status' = Success
    /\ Commit(Success, FALSE, "none", FALSE)
    /\ RetireRequests
    /\ UNCHANGED <<lastScreenshot, transcription, currentSnippet, error, cropArea,
                   isSelecting, isEditing, editedTranscription, selectionStartPoint>>

\* handleEndSession as memoized with (tr, shot) for transcription, lastScreenshot
handleEndSession(tr, shot) ==
    IF tr # << >> \/ shot # Null
    THEN /\ stopStream
         /\ status' = Success
         /\ Commit(Success, FALSE, "none", FALSE)
         /\ RetireRequests
         /\ UNCHANGED <<lastScreenshot, transcription, currentSnippet, error, cropArea,
                        isSelecting, isEditing, editedTranscription, selectionStartPoint>>
    ELSE handleStartNewSession

\* handleStartCapture up to the await
handleStartCapture ==
    /\ status' = Capturing
    /\ error' = ErrNone
    /\ transcription' = << >>
    /\ lastScreenshot' = Null
    /\ cropArea' = Null
    /\ isEditing' = FALSE
    /\ acquiring' = acquiring + 1
    /\ onendedEnv' = <<transcription, lastScreenshot>>
    /\ Commit(Capturing, streamRef, videoSrc, videoReady)
    /\ RetireRequests
    /\ UNCHANGED <<currentSnippet, editedTranscription, isSelecting, selectionStartPoint,
                   streamRef, leakedStreams>>

\* handleStartCapture after getDisplayMedia resolved
handleStartCaptureResolved ==
    /\ acquiring' = acquiring - 1
    /\ streamRef' = TRUE
    /\ leakedStreams' = leakedStreams + (IF streamRef THEN 1 ELSE 0)
    /\ status' = Streaming
    /\ Commit(Streaming, TRUE,
              IF streamRef /\ videoSrc = "current" THEN "leaked" ELSE videoSrc, videoReady)
    /\ UNCHANGED <<transcription, currentSnippet, lastScreenshot, error, isEditing,
                   editedTranscription, cropArea, isSelecting, selectionStartPoint,
                   onendedEnv, inFlight, staleInFlight>>

\* handleStartCapture after getDisplayMedia rejected with err.name = name
\* the catch that takes only NotAllowedError for the user's refusal
handleStartCaptureRejectedAbortIsError(name) ==
    /\ acquiring' = acquiring - 1
    /\ IF name = "NotAllowedError"
       THEN handleStartNewSession
       ELSE /\ error' = ErrCapture
            /\ status' = Error
            /\ Commit(Error, streamRef, videoSrc, videoReady)
            /\ UNCHANGED <<transcription, currentSnippet, lastScreenshot, isEditing,
                           editedTranscription, cropArea, isSelecting, selectionStartPoint,
                           streamRef, inFlight, staleInFlight>>
    /\ UNCHANGED <<leakedStreams, onendedEnv>>

handleStartCaptureRejected(name) ==
    /\ acquiring' = acquiring - 1
    /\ IF name = "NotAllowedError" \/ name = "AbortError"
       THEN handleStartNewSession
       ELSE /\ error' = ErrCapture
            /\ status' = Error
            /\ Commit(Error, streamRef, videoSrc, videoReady)
            /\ UNCHANGED <<transcription, currentSnippet, lastScreenshot, isEditing,
                           editedTranscription, cropArea, isSelecting, selectionStartPoint,
                           streamRef, inFlight, staleInFlight>>
    /\ UNCHANGED <<leakedStreams, onendedEnv>>

\* video.oncanplay: the video has data; video.play() resolves (played) or rejects
videoOnCanPlay(played) ==
    /\ IF played
       THEN /\ Commit(status, streamRef, videoSrc, TRUE)
            /\ UNCHANGED <<status, error>>
       ELSE /\ error' = ErrPlay
            /\ status' = Error
            /\ Commit(Error, streamRef, videoSrc, TRUE)
    /\ UNCHANGED <<transcription, currentSnippet, lastScreenshot, isEditing,
                   editedTranscription, cropArea, isSelecting, selectionStartPoint,
                   streamRef, leakedStreams, acquiring, onendedEnv, inFlight, staleInFlight>>

\* video.onerror
videoOnError ==
    /\ error' = ErrVideo
    /\ status' = Error
    /\ Commit(Error, streamRef, videoSrc, videoReady)
    /\ UNCHANGED <<transcription, currentSnippet, lastScreenshot, isEditing,
                   editedTranscription, cropArea, isSelecting, selectionStartPoint,
                   streamRef, leakedStreams, acquiring, onendedEnv, inFlight, staleInFlight>>

----------------------------------------------------------------------------
(* Snapshot and transcription *)

\* the selection has to be at least this wide and high (preview pixels)
MinSelection == 10
\* the extracted region has to be at least this wide and high (source pixels)
MinSource == 1

\* sx, sy, sWidth, sHeight of drawImage: the selection scaled by
\* videoWidth / clientWidth and videoHeight / clientHeight
SourceRegion(crop, dims) ==
    <<Quot(crop[1] * dims[1], dims[2]), Quot(crop[2] * dims[3], dims[4]),
      Quot(crop[3] * dims[1], dims[2]), Quot(crop[4] * dims[3], dims[4])>>

\* q <= n in place of q < n
QuotLessOrEqual(q, n) == q[1] <= n * q[2]

\* q < n for a quotient q
QuotLess(q, n) == q[1] < n * q[2]

\* handleTakeSnapshot up to the await; dims are the video's sizes, ctxOk is
\* whether canvas.getContext('2d') returned a context
\* handleTakeSnapshot that returns without a message when no area is selected
handleTakeSnapshotSilent(dims, ctxOk) ==
    LET region == SourceRegion(cropArea, dims)
        st == IF ~videoReady THEN Error
              ELSE IF cropArea = Null THEN status
              ELSE IF QuotLess(region[3], MinSource) \/ QuotLess(region[4], MinSource)
                   THEN Streaming
              ELSE IF ctxOk THEN Transcribing
              ELSE Error
        issued == videoReady /\ cropArea # Null /\ st = Transcribing
    IN  /\ status' = st
        /\ error' = IF ~videoReady THEN ErrNotReady
                    ELSE IF cropArea = Null THEN error
                    ELSE IF st = Error THEN ErrContext
                    ELSE ErrNone
        /\ lastScreenshot' = IF issued THEN region ELSE lastScreenshot
        /\ inFlight' = IF issued THEN inFlight + 1 ELSE inFlight
        /\ Commit(st, streamRef, videoSrc, videoReady)
        /\ UNCHANGED <<transcription, currentSnippet, isEditing, editedTranscription,
                       cropArea, isSelecting, selectionStartPoint, streamRef, leakedStreams,
                       acquiring, onendedEnv, staleInFlight>>

handleTakeSnapshot(dims, ctxOk) ==
    LET region == SourceRegion(cropArea, dims)
        st == IF ~videoReady THEN Error
              ELSE IF cropArea = Null THEN status
              ELSE IF QuotLess(region[3], MinSource) \/ QuotLess(region[4], MinSource)
                   THEN Streaming
              ELSE IF ctxOk THEN Transcribing
              ELSE Error
        issued == videoReady /\ cropArea # Null /\ st = Transcribing
    IN  /\ status' = st
        /\ error' = IF ~videoReady THEN ErrNotReady
                    ELSE IF cropArea = Null THEN ErrNoArea
                    ELSE IF st = Error THEN ErrContext
                    ELSE ErrNone
        /\ lastScreenshot' = IF issued THEN region ELSE lastScreenshot
        /\ inFlight' = IF issued THEN inFlight + 1 ELSE inFlight
        /\ Commit(st, streamRef, videoSrc, videoReady)
        /\ UNCHANGED <<transcription, currentSnippet, isEditing, editedTranscription,
                       cropArea, isSelecting, selectionStartPoint, streamRef, leakedStreams,
                       acquiring, onendedEnv, staleInFlight>>

\* handleTakeSnapshot after the await, without setCurrentSnippet(result)
handleTakeSnapshotSettledDropsResult(outcome) ==
    /\ IF ~outcome.threw
       THEN /\ status' = Reviewing
            /\ Commit(Reviewing, streamRef, videoSrc, videoReady)
            /\ UNCHANGED <<error, currentSnippet>>
       ELSE /\ error' = ErrTranscribe
            /\ status' = Streaming
            /\ Commit(Streaming, streamRef, videoSrc, videoReady)
            /\ UNCHANGED currentSnippet
    /\ UNCHANGED <<transcription, lastScreenshot, isEditing, editedTranscription,
                   cropArea, isSelecting, selectionStartPoint, streamRef, leakedStreams,
                   acquiring, onendedEnv>>

\* handleTakeSnapshot after the await: transcribeImage settled with outcome
handleTakeSnapshotSettled(outcome) ==
    /\ IF ~outcome.threw
       THEN /\ currentSnippet' = outcome.value
            /\ status' = Reviewing
            /\ Commit(Reviewing, streamRef, videoSrc, videoReady)
            /\ UNCHANGED error
       ELSE /\ error' = ErrTranscribe
            /\ status' = Streaming
            /\ Commit(Streaming, streamRef, videoSrc, videoReady)
            /\ UNCHANGED currentSnippet
    /\ UNCHANGED <<transcription, lastScreenshot, isEditing, editedTranscription,
                   cropArea, isSelecting, selectionStartPoint, streamRef, leakedStreams,
                   acquiring, onendedEnv>>

\* the join with a single line break
AppendSnippetOneBreak(prev, snippet) ==
    IF prev # << >> THEN prev \o <<NL>> \o snippet ELSE snippet

\* prev ? `${prev}\n\n${currentSnippet}` : currentSnippet
AppendSnippet(prev, snippet) ==
    IF prev # << >> THEN prev \o <<NL, NL>> \o snippet ELSE snippet

handleSaveAndContinue ==
    /\ transcription' = AppendSnippet(transcription, currentSnippet)
    /\ currentSnippet' = << >>
    /\ lastScreenshot' = Null
    /\ status' = Streaming
    /\ Commit(Streaming, streamRef, videoSrc, videoReady)
    /\ UNCHANGED <<error, isEditing, editedTranscription, cropArea, isSelecting,
                   selectionStartPoint, streamRef, leakedStreams, acquiring, onendedEnv,
                   inFlight, staleInFlight>>

\* variant: the discard also empties the accumulated transcript
handleDiscardSnippetDropsTranscript ==
    /\ transcription' = << >>
    /\ currentSnippet' = << >>
    /\ lastScreenshot' = Null
    /\ status' = Streaming
    /\ Commit(Streaming, streamRef, videoSrc, videoReady)
    /\ UNCHANGED <<error, isEditing, editedTranscription, cropArea,
                   isSelecting, selectionStartPoint, streamRef, leakedStreams, acquiring,
                   onendedEnv, inFlight, staleInFlight>>

handleDiscardSnippet ==
    /\ currentSnippet' = << >>
    /\ lastScreenshot' = Null
    /\ status' = Streaming
    /\ Commit(Streaming, streamRef, videoSrc, videoReady)
    /\ UNCHANGED <<transcription, error, isEditing, editedTranscription, cropArea,
                   isSelecting, selectionStartPoint, streamRef, leakedStreams, acquiring,
                   onendedEnv, inFlight, staleInFlight>>

----------------------------------------------------------------------------
(* Crop selection *)

handleMouseDown(p) ==
    /\ error' = ErrNone
    /\ isSelecting' = TRUE
    /\ selectionStartPoint' = p
    /\ cropArea' = <<p[1], p[2], 0, 0>>
    /\ UNCHANGED <<status, transcription, currentSnippet, lastScreenshot, isEditing,
                   editedTranscription, streamRef, leakedStreams, acquiring, onendedEnv,
                   videoSrc, videoReady, inFlight, staleInFlight>>

handleMouseMove(p) ==
    /\ isSelecting /\ selectionStartPoint # Null
    /\ cropArea' = <<Min(selectionStartPoint[1], p[1]), Min(selectionStartPoint[2], p[2]),
                     Abs(p[1] - selectionStartPoint[1]), Abs(p[2] - selectionStartPoint[2])>>
    /\ UNCHANGED <<status, transcription, currentSnippet, lastScreenshot, error, isEditing,
                   editedTranscription, isSelecting, selectionStartPoint, streamRef,
                   leakedStreams, acquiring, onendedEnv, videoSrc, videoReady, inFlight,
                   staleInFlight>>

\* handleMouseUp that keeps a selection of any size
handleMouseUpKeepsSmall ==
    /\ isSelecting' = FALSE
    /\ UNCHANGED <<cropArea, status, transcription, currentSnippet, lastScreenshot, error,
                   isEditing, editedTranscription, selectionStartPoint, streamRef,
                   leakedStreams, acquiring, onendedEnv, videoSrc, videoReady, inFlight,
                   staleInFlight>>

handleMouseUp ==
    /\ isSelecting' = FALSE
    /\ cropArea' = IF cropArea # Null
                      /\ (cropArea[3] < MinSelection \/ cropArea[4] < MinSelection)
                   THEN Null
                   ELSE cropArea
    /\ UNCHANGED <<status, transcription, currentSnippet, lastScreenshot, error, isEditing,
                   editedTranscription, selectionStartPoint, streamRef, leakedStreams,
                   acquiring, onendedEnv, videoSrc, videoReady, inFlight, staleInFlight>>

handleMouseLeave ==
    /\ isSelecting
    /\ handleMouseUp

----------------------------------------------------------------------------
(* Text areas and the editing buttons *)

\* onChange of the review textarea
setCurrentSnippet(t) ==
    /\ currentSnippet' = t
    /\ UNCHANGED <<status, transcription, lastScreenshot, error, isEditing,
                   editedTranscription, cropArea, isSelecting, selectionStartPoint,
                   streamRef, leakedStreams, acquiring, onendedEnv, videoSrc, videoReady,
                   inFlight, staleInFlight>>

\* onClick of the Edit button
beginEdit ==
    /\ isEditing' = TRUE
    /\ editedTranscription' = transcription
    /\ UNCHANGED <<status, transcription, currentSnippet, lastScreenshot, error, cropArea,
                   isSelecting, selectionStartPoint, streamRef, leakedStreams, acquiring,
                   onendedEnv, videoSrc, videoReady, inFlight, staleInFlight>>

\* onChange of the draft textarea
setEditedTranscription(t) ==
    /\ editedTranscription' = t
    /\ UNCHANGED <<status, transcription, currentSnippet, lastScreenshot, error, isEditing,
                   cropArea, isSelecting, selectionStartPoint, streamRef, leakedStreams,
                   acquiring, onendedEnv, videoSrc, videoReady, inFlight, staleInFlight>>

\* onClick of Cancel
cancelEdit ==
    /\ isEditing' = FALSE
    /\ editedTranscription' = << >>
    /\ UNCHANGED <<status, transcription, currentSnippet, lastScreenshot, error, cropArea, isSelecting, selectionStartPoint,
                   streamRef, leakedStreams, acquiring, onendedEnv, videoSrc, videoReady,
                   inFlight, staleInFlight>>

\* onClick of Save Changes
\* Save Changes that clears the flag and leaves the transcript
commitEditDropsDraft ==
    /\ isEditing' = FALSE
    /\ editedTranscription' = << >>
    /\ UNCHANGED <<transcription, status, currentSnippet, lastScreenshot, error, cropArea,
                   isSelecting, selectionStartPoint, streamRef, leakedStreams, acquiring,
                   onendedEnv, videoSrc, videoReady, inFlight, staleInFlight>>

commitEdit ==
    /\ transcription' = editedTranscription
    /\ isEditing' = FALSE
    /\ editedTranscription' = << >>
    /\ UNCHANGED <<status, currentSnippet, lastScreenshot, error, cropArea, isSelecting, selectionStartPoint, streamRef, leakedStreams,
                   acquiring, onendedEnv, videoSrc, videoReady, inFlight, staleInFlight>>

----------------------------------------------------------------------------
(* What renderContent offers in each state *)

\* the panel with the preview and the transcript is rendered
panelShown == status \in {Streaming, Transcribing, Reviewing, Success}

\* the third branch of the action buttons: not Reviewing, not editing
buttonsShown == panelShown /\ status # Reviewing /\ ~isEditing

\* the Cancel / Save Changes pair and the draft textarea
draftShown == panelShown /\ status # Reviewing /\ isEditing

\* Take Snapshot is rendered and not disabled
takeSnapshotEnabled ==
    buttonsShown /\ isSessionActive(status) /\ ~(status = Transcribing \/ cropArea = Null)

endSessionShown == buttonsShown /\ isSessionActive(status)

startNewSessionShown == status = Error \/ (buttonsShown /\ status = Success)

editShown == status = Success /\ transcription # << >> /\ ~isEditing

----------------------------------------------------------------------------
(* Events *)

StartCapture ==
    /\ status = Idle
    /\ acquiring + leakedStreams + (IF streamRef THEN 1 ELSE 0) < MaxStreams
    /\ handleStartCapture
    /\ lastOp' = Op("StartCapture")

StreamAcquired ==
    /\ acquiring > 0
    /\ handleStartCaptureResolved
    /\ lastOp' = Op("StreamAcquired")

AcquireFailed ==
    /\ acquiring > 0
    /\ \E name \in AcquireErrors :
        /\ handleStartCaptureRejected(name)
        /\ lastOp' = [op |-> "AcquireFailed", arg |-> <<name>>]

VideoCanPlay ==
    /\ videoSrc # "none" /\ ~videoReady
    /\ \E played \in BOOLEAN : videoOnCanPlay(played)
    /\ lastOp' = Op("VideoCanPlay")

VideoError ==
    /\ videoSrc # "none"
    /\ videoOnError
    /\ lastOp' = Op("VideoError")

MouseDown(points) ==
    /\ isSessionActive(status)
    /\ \E p \in points : handleMouseDown(p)
    /\ lastOp' = Op("MouseDown")

MouseMove(points) ==
    /\ isSessionActive(status)
    /\ \E p \in points : handleMouseMove(p)
    /\ lastOp' = Op("MouseMove")

MouseUp ==
    /\ isSessionActive(status)
    /\ handleMouseUp
    /\ lastOp' = Op("MouseUp")

MouseLeave ==
    /\ isSessionActive(status)
    /\ handleMouseLeave
    /\ lastOp' = Op("MouseLeave")

TakeSnapshot(videoDims) ==
    /\ takeSnapshotEnabled
    /\ inFlight + staleInFlight < MaxInFlight
    /\ \E dims \in videoDims, ctxOk \in BOOLEAN :
        /\ handleTakeSnapshot(dims, ctxOk)
        /\ lastOp' = [op |-> "TakeSnapshot", arg |-> dims]

\* a transcribeImage call settles: one of the current session, or a stale one
TranscriptionSettled(responses) ==
    /\ \E stale \in BOOLEAN :
        /\ IF stale THEN staleInFlight > 0 ELSE inFlight > 0
        /\ inFlight' = IF stale THEN inFlight ELSE inFlight - 1
        /\ staleInFlight' = IF stale THEN staleInFlight - 1 ELSE staleInFlight
    /\ \E response \in responses :
        LET outcome == transcribeImage(response)
        IN  /\ handleTakeSnapshotSettled(outcome)
            /\ lastOp' = [op |-> IF outcome.threw THEN "TranscriptionFailed"
                                 ELSE "TranscriptionSucceeded",
                          arg |-> outcome.value]

SaveAndContinue ==
    /\ status = Reviewing
    /\ Len(AppendSnippet(transcription, currentSnippet)) <= MaxLen
    /\ handleSaveAndContinue
    /\ lastOp' = Op("SaveAndContinue")

DiscardSnippet ==
    /\ status = Reviewing
    /\ handleDiscardSnippet
    /\ lastOp' = Op("DiscardSnippet")

EditSnippet ==
    /\ status = Reviewing
    /\ \E t \in SnippetEdits : t # currentSnippet /\ setCurrentSnippet(t)
    /\ lastOp' = Op("EditSnippet")

BeginEdit ==
    /\ editShown
    /\ beginEdit
    /\ lastOp' = Op("BeginEdit")

EditDraft ==
    /\ draftShown
    /\ \E t \in DraftEdits : t # editedTranscription /\ setEditedTranscription(t)
    /\ lastOp' = Op("EditDraft")

CancelEdit ==
    /\ draftShown
    /\ cancelEdit
    /\ lastOp' = Op("CancelEdit")

CommitEdit ==
    /\ draftShown
    /\ commitEdit
    /\ lastOp' = Op("CommitEdit")

\* the End Session button: handleEndSession of the current render
EndSession ==
    /\ endSessionShown
    /\ handleEndSession(transcription, lastScreenshot)
    /\ UNCHANGED <<leakedStreams, acquiring, onendedEnv>>
    /\ lastOp' = Op("EndSession")

\* a live track ends outside the program ("Stop sharing"): its onended runs the
\* handleEndSession that handleStartCapture closed over
StreamEnded ==
    /\ \E leaked \in BOOLEAN :
        /\ IF leaked THEN leakedStreams > 0 ELSE streamRef
        /\ leakedStreams' = IF leaked THEN leakedStreams - 1 ELSE leakedStreams
    /\ handleEndSession(onendedEnv[1], onendedEnv[2])
    /\ UNCHANGED <<acquiring, onendedEnv>>
    /\ lastOp' = Op("StreamEnded")

StartNewSession ==
    /\ startNewSessionShown
    /\ handleStartNewSession
    /\ UNCHANGED <<leakedStreams, acquiring, onendedEnv>>
    /\ lastOp' = Op("StartNewSession")

Next ==
    \/ StartCapture
    \/ StreamAcquired
    \/ AcquireFailed
    \/ VideoCanPlay
    \/ VideoError
    \/ MouseDown(Points)
    \/ MouseMove(Points)
    \/ MouseUp
    \/ MouseLeave
    \/ TakeSnapshot(VideoDims)
    \/ TranscriptionSettled(Responses)
    \/ SaveAndContinue
    \/ DiscardSnippet
    \/ EditSnippet
    \/ BeginEdit
    \/ EditDraft
    \/ CancelEdit
    \/ CommitEdit
    \/ EndSession
    \/ StreamEnded
    \/ StartNewSession

Spec == Init /\ [][Next]_vars

----------------------------------------------------------------------------
(* Selecting and extracting a region: the session without the saves and    *)
(* the edits, so with an empty transcript, over more pointer positions     *)
(* (selections of 9 and of 10 preview pixels a side) and videos ten and     *)
(* twenty times smaller than their preview                                 *)

SelectionPoints == {<<10, 10>>, <<19, 20>>, <<20, 19>>, <<20, 20>>, <<110, 90>>}

SelectionDims == {<<1280, 640, 720, 360>>, <<64, 640, 36, 360>>, <<32, 640, 18, 360>>}

SelectionResponses == {r \in Responses : ~r.ok \/ r.text = A}

SelectionNext ==
    \/ StartCapture
    \/ StreamAcquired
    \/ VideoCanPlay
    \/ MouseDown(SelectionPoints)
    \/ MouseMove(SelectionPoints)
    \/ MouseUp
    \/ MouseLeave
    \/ TakeSnapshot(SelectionDims)
    \/ TranscriptionSettled(SelectionResponses)
    \/ DiscardSnippet
    \/ EndSession
    \/ StartNewSession

SelectionSpec == Init /\ [][SelectionNext]_vars

----------------------------------------------------------------------------
(* The session taking every take-snapshot request made while Streaming.    *)
(* The Take Snapshot button is disabled while there is no cropArea (l.478) *)
(* and handleTakeSnapshot has no other caller, so the program itself never *)
(* runs the branch of l.166-170; here the request reaches the handler      *)
(* whether or not an area is selected.                                     *)

TakeSnapshotRequested(videoDims) ==
    /\ buttonsShown /\ status = Streaming
    /\ inFlight + staleInFlight < MaxInFlight
    /\ \E dims \in videoDims, ctxOk \in BOOLEAN :
        /\ handleTakeSnapshot(dims, ctxOk)
        /\ lastOp' = [op |-> "TakeSnapshot", arg |-> dims]

RequestNext ==
    \/ Next
    \/ TakeSnapshotRequested(VideoDims)

RequestSpec == Init /\ [][RequestNext]_vars

----------------------------------------------------------------------------
(* The claims *)

EndEvents == {"EndSession", "StreamEnded"}

\* the state handleStartNewSession leaves
FullyReset ==
    /\ transcription = << >>
    /\ currentSnippet = << >>
    /\ lastScreenshot = Null
    /\ error = ErrNone
    /\ cropArea = Null
    /\ ~isEditing
    /\ ~isSelecting
    /\ ~streamRef

\* C1: in every reachable state, a non-empty currentSnippet implies
\* status = Reviewing.
C1_SnippetOnlyWhileReviewing ==
    currentSnippet # << >> => status = Reviewing

\* C2 as stated: in every reachable state, cropArea is defined only while
\* status is Streaming or Transcribing.
C2_CropOnlyWhileStreamingOrTranscribing ==
    cropArea # Null => status \in {Streaming, Transcribing}

\* C2 as amended: cropArea is none whenever status is Idle or Capturing, and
\* a take-snapshot, a transcription result, a save and a discard leave
\* cropArea as it was.
C2_CropNoneWhenIdleOrCapturing ==
    /\ cropArea = Null
    /\ [][/\ status' \in {Idle, Capturing} => cropArea' = Null
          /\ lastOp'.op \in {"TakeSnapshot", "TranscriptionSucceeded", "TranscriptionFailed",
                             "SaveAndContinue", "DiscardSnippet"}
                => cropArea' = cropArea]_vars

\* C2 witness: a session that had taken a snapshot of a selection was reset,
\* a new capture was started, and the selection is gone.
C2_Witness ==
    status = Capturing /\ staleInFlight > 0 /\ cropArea = Null

\* C3: once status = Success, the only event that changes status is
\* start-new-session, and it moves status to Idle.
C3_SuccessTerminalUntilReset ==
    [][status = Success /\ status' # Success
          => lastOp'.op = "StartNewSession" /\ status' = Idle]_vars

\* C4: at most one transcription request is in flight at any time.
C4_AtMostOneRequestInFlight ==
    inFlight + staleInFlight <= 1

\* C5: in every reachable state with status in {Idle, Success, Error} the
\* stream has been released.
C5_StreamReleasedOutsideSession ==
    status \in {Idle, Success, Error} => ~streamRef

\* C6: an end-session event (explicit or by the stream ending) in Streaming,
\* Transcribing or Reviewing with a non-empty accumulated transcript or a
\* screenshot moves to Success, releases the stream and leaves the accumulated
\* transcript unchanged.
C6_EndWithContentIsSuccess ==
    [][(/\ lastOp'.op \in EndEvents
        /\ isSessionActive(status)
        /\ (transcription # << >> \/ lastScreenshot # Null))
          => (status' = Success /\ ~streamRef' /\ transcription' = transcription)]_vars

\* C7: an end-session event (explicit or by the stream ending) with an empty
\* accumulated transcript and no screenshot moves to Idle with a full reset.
C7_EndWithoutContentIsIdle ==
    [][(/\ lastOp'.op \in EndEvents
        /\ transcription = << >>
        /\ lastScreenshot = Null)
          => (status' = Idle /\ FullyReset')]_vars

\* C7 witness: End Session was pressed and the session is Idle (the button is
\* offered in Streaming and Transcribing only, and leads to Idle only when
\* nothing was captured).
C7_Witness ==
    lastOp.op = "EndSession" /\ status = Idle

\* C8: a transcription failure arriving while status = Transcribing moves to
\* Streaming with an error message, leaves the accumulated transcript
\* unchanged and currentSnippet empty, and keeps the stream.
C8_FailureReturnsToStreaming ==
    [][(lastOp'.op = "TranscriptionFailed" /\ status = Transcribing)
          => (/\ status' = Streaming
              /\ error' # ErrNone
              /\ transcription' = transcription
              /\ currentSnippet' = << >>
              /\ streamRef')]_vars

\* C9: a transcription success arriving while status = Transcribing moves to
\* Reviewing with currentSnippet the returned text, keeps the screenshot as
\* lastScreenshot and leaves the accumulated transcript unchanged.
C9_SuccessEntersReview ==
    [][(lastOp'.op = "TranscriptionSucceeded" /\ status = Transcribing)
          => (/\ status' = Reviewing
              /\ currentSnippet' = lastOp'.arg
              /\ lastScreenshot # Null
              /\ lastScreenshot' = lastScreenshot
              /\ transcription' = transcription)]_vars

\* C9 witness: a text arrived while Transcribing and is under review.
C9_Witness ==
    /\ lastOp.op = "TranscriptionSucceeded"
    /\ status = Reviewing
    /\ currentSnippet = A
    /\ lastScreenshot # Null
    /\ inFlight + staleInFlight = 0

\* C10: saving snippet S from Reviewing sets the accumulated transcript to S
\* when it was empty and to the previous value, a blank line and S otherwise
\* ("A" then "B" give "A\n\nB"); the text saved before stays as a prefix.
C10_SaveAppends ==
    [][(lastOp'.op = "SaveAndContinue" /\ status = Reviewing)
          => (/\ transcription = << >> => transcription' = currentSnippet
              /\ transcription # << >>
                    => transcription' = transcription \o <<NL, NL>> \o currentSnippet
              /\ (transcription = A /\ currentSnippet = B)
                    => transcription' = <<"A", NL, NL, "B">>
              /\ Len(transcription') >= Len(transcription)
              /\ SubSeq(transcription', 1, Len(transcription)) = transcription)]_vars

\* C10 witness: "A" was saved, then "B".
C10_Witness ==
    lastOp.op = "SaveAndContinue" /\ transcription = <<"A", NL, NL, "B">>

\* C11: save-and-continue from Reviewing moves the session to Streaming and
\* leaves currentSnippet empty, lastScreenshot none and error none.
C11_SaveClearsSnippetScreenshotError ==
    [][(lastOp'.op = "SaveAndContinue" /\ status = Reviewing)
         => (/\ status' = Streaming
             /\ currentSnippet' = << >>
             /\ lastScreenshot' = Null
             /\ error' = ErrNone)]_vars

\* C12: discard from Reviewing moves the session to Streaming, clears
\* currentSnippet and lastScreenshot, and leaves the accumulated transcript
\* exactly as it was before the discard.
C12_DiscardKeepsTranscript ==
    [][(lastOp'.op = "DiscardSnippet" /\ status = Reviewing)
         => (/\ status' = Streaming
             /\ currentSnippet' = << >>
             /\ lastScreenshot' = Null
             /\ transcription' = transcription)]_vars

\* C12 witness: a snippet was discarded while "A" was already saved.
C12_Witness ==
    /\ lastOp.op = "DiscardSnippet"
    /\ status = Streaming
    /\ transcription = A
    /\ currentSnippet = << >>
    /\ lastScreenshot = Null

GestureEvents == {"MouseDown", "MouseMove", "MouseUp", "MouseLeave"}

\* C13: a crop gesture (mouse down, moves, then mouse up or mouse leave) that
\* ends with a width or a height under 10 preview pixels leaves cropArea none;
\* one that ends with both at 10 or more leaves cropArea that rectangle; no
\* step of a gesture changes status.
C13_SmallSelectionDiscarded ==
    [][/\ lastOp'.op \in GestureEvents => status' = status
       /\ lastOp'.op = "MouseDown"
             => /\ isSelecting'
                /\ cropArea' = <<selectionStartPoint'[1], selectionStartPoint'[2], 0, 0>>
       /\ (lastOp'.op = "MouseMove" /\ isSelecting)
             => /\ cropArea'[1] <= selectionStartPoint[1]
                /\ selectionStartPoint[1] <= cropArea'[1] + cropArea'[3]
                /\ cropArea'[2] <= selectionStartPoint[2]
                /\ selectionStartPoint[2] <= cropArea'[2] + cropArea'[4]
       /\ (lastOp'.op \in {"MouseUp", "MouseLeave"} /\ isSelecting /\ cropArea # Null)
             => /\ ~isSelecting'
                /\ (cropArea[3] < 10 \/ cropArea[4] < 10) => cropArea' = Null
                /\ (cropArea[3] >= 10 /\ cropArea[4] >= 10) => cropArea' = cropArea]_vars

\* C13 witness: a gesture ended on a selection of exactly 10 by 10 and it is
\* kept (one of 10 by 9 is not: see the formula).
C13_Witness ==
    /\ lastOp.op \in {"MouseUp", "MouseLeave"}
    /\ ~isSelecting
    /\ cropArea = <<10, 10, 10, 10>>

UserRefusals == {"NotAllowedError", "AbortError"}

\* C15: from Capturing, an acquisition denied or aborted by the user returns
\* to Idle with a full reset and no error; any other acquisition failure
\* moves to Error with an error message; neither enters Streaming.
C15_AcquisitionFailure ==
    [][(lastOp'.op = "AcquireFailed" /\ status = Capturing)
         => (/\ lastOp'.arg[1] \in UserRefusals
                   => (status' = Idle /\ FullyReset' /\ error' = ErrNone)
             /\ lastOp'.arg[1] \notin UserRefusals
                   => (status' = Error /\ error' # ErrNone)
             /\ status' # Streaming)]_vars

\* C15 witness: an acquisition failed for a reason other than the user's
\* refusal and the session shows the error (the refusals lead to Idle: see
\* the formula).
C15_Witness ==
    /\ lastOp = [op |-> "AcquireFailed", arg |-> <<"NotFoundError">>]
    /\ status = Error
    /\ error = ErrCapture

\* C16: start-new-session from Error or Success moves to Idle with a full
\* reset: accumulated transcript and currentSnippet empty, lastScreenshot,
\* error and cropArea none, the editing flag false, the stream released.
C16_StartNewSessionResets ==
    [][(lastOp'.op = "StartNewSession" /\ status \in {Error, Success})
         => (/\ status' = Idle
             /\ transcription' = << >>
             /\ currentSnippet' = << >>
             /\ lastScreenshot' = Null
             /\ error' = ErrNone
             /\ cropArea' = Null
             /\ ~isEditing'
             /\ ~streamRef')]_vars

\* C16 witness: Start New Session was pressed on a session that had taken a
\* snapshot whose transcription is still awaited, and all is reset.
C16_Witness ==
    /\ lastOp.op = "StartNewSession"
    /\ status = Idle
    /\ FullyReset
    /\ staleInFlight > 0

\* C17: in Success, committing an edit sets the accumulated transcript to the
\* draft and clears the editing flag; cancelling clears the editing flag and
\* leaves the accumulated transcript unchanged; neither changes status.
C17_CommitAndCancelEdit ==
    [][/\ (lastOp'.op = "CommitEdit" /\ status = Success)
             => (/\ transcription' = editedTranscription
                 /\ ~isEditing'
                 /\ status' = Success)
       /\ (lastOp'.op = "CancelEdit" /\ status = Success)
             => (/\ transcription' = transcription
                 /\ ~isEditing'
                 /\ status' = Success)]_vars

\* C17 witness: the draft "C", which only the draft textarea produces, was
\* committed in Success and is the transcript.
C17_Witness ==
    /\ lastOp.op = "CommitEdit"
    /\ status = Success
    /\ ~isEditing
    /\ transcription = <<"C">>

\* C18: transcribeImage never returns an empty string on success: whatever
\* the service answers, a call that succeeds delivers a non-empty text.
C18_TranscriptionNeverEmpty ==
    lastOp.op = "TranscriptionSucceeded" => lastOp.arg # << >>

\* C19: taking a snapshot of a selection scales it by (videoWidth /
\* clientWidth, videoHeight / clientHeight): (10, 10, 100, 80) at 2:1 gives
\* the source region (20, 20, 200, 160); when the scaled width or height is
\* under 1 pixel the request is rejected: status ends in Streaming, no
\* screenshot is stored and no transcription request is issued.
C19_RegionExtraction ==
    [][(lastOp'.op = "TakeSnapshot" /\ status = Streaming /\ videoReady /\ cropArea # Null)
         => LET vw == lastOp'.arg[1]
                cw == lastOp'.arg[2]
                vh == lastOp'.arg[3]
                ch == lastOp'.arg[4]
                under1 == cropArea[3] * vw < cw \/ cropArea[4] * vh < ch
                shot == lastScreenshot'
            IN  /\ under1
                      => (/\ status' = Streaming
                          /\ lastScreenshot' = lastScreenshot
                          /\ inFlight' = inFlight /\ staleInFlight' = staleInFlight)
                /\ ~under1 => status' \in {Transcribing, Error}
                /\ status' = Transcribing
                      => (/\ shot[1][1] * cw = cropArea[1] * vw * shot[1][2]
                          /\ shot[2][1] * ch = cropArea[2] * vh * shot[2][2]
                          /\ shot[3][1] * cw = cropArea[3] * vw * shot[3][2]
                          /\ shot[4][1] * ch = cropArea[4] * vh * shot[4][2]
                          /\ inFlight' = inFlight + 1)
                /\ (/\ status' = Transcribing
                    /\ cropArea = <<10, 10, 100, 80>>
                    /\ vw = 2 * cw /\ vh = 2 * ch)
                      => shot = <<<<20, 1>>, <<20, 1>>, <<200, 1>>, <<160, 1>>>>]_vars

\* C19 witness: the selection (10, 10, 100, 80) was extracted from a video
\* twice the size of its preview.
C19_Witness ==
    /\ lastOp = [op |-> "TakeSnapshot", arg |-> <<1280, 640, 720, 360>>]
    /\ status = Transcribing
    /\ cropArea = <<10, 10, 100, 80>>
    /\ lastScreenshot = <<<<20, 1>>, <<20, 1>>, <<200, 1>>, <<160, 1>>>>

\* C20: the editing flag is true only while status = Success, in every
\* reachable state.
C20_EditingOnlyInSuccess ==
    isEditing => status = Success

\* C21: whenever status is Streaming, Transcribing or Reviewing the session
\* holds a live stream.
C21_ActiveSessionHoldsStream ==
    isSessionActive(status) => streamRef

TranscriptionResults == {"TranscriptionSucceeded", "TranscriptionFailed"}

\* C22: the result of a request whose session was ended or reset, arriving
\* after a new capture was started (its stream being acquired or held),
\* changes neither the status, the currentSnippet nor the error.
C22_LateResultIgnored ==
    [][(/\ lastOp'.op \in TranscriptionResults
        /\ staleInFlight' < staleInFlight
        /\ (acquiring > 0 \/ streamRef))
          => (/\ status' = status
              /\ currentSnippet' = currentSnippet
              /\ error' = error)]_vars

\* C23: the accumulated transcript changes only through save-and-continue,
\* committing an edit, start-capture and start-new-session; gestures, take
\* snapshot, a transcription result, discard and an end-session event
\* (explicit or by the stream ending) leave it unchanged.
C23_TranscriptChangesOnlyBy ==
    [][transcription' # transcription
          => lastOp'.op \in {"SaveAndContinue", "CommitEdit", "StartCapture",
                             "StartNewSession"}]_vars

====
